---- MODULE Spec2Model ----
(***************************************************************************)
(* The serving core of the California-housing prediction API:              *)
(*   api/app/services/model_loader.py   load_model (lru_cache)             *)
(*   api/app/routers/prediction.py      predict_housing_price, metrics     *)
(*   api/app/utils/logging.py           RequestContextMiddleware, helpers  *)
(*   api/app/main.py                    health_check                       *)
(*   data/scripts/03_feature_engineering.py  engineer_features             *)
(*                                                                         *)
(* Requests are handled on one asyncio event loop.  A request is suspended *)
(* only where the code awaits: RequestContextMiddleware.dispatch awaits    *)
(* call_next, and the downstream application runs as its own task.  The    *)
(* body of predict_housing_price holds no await, so it (and the            *)
(* load_model call inside it) runs as one step with respect to the other   *)
(* requests.  A request therefore takes three steps: DispatchEnter,        *)
(* CallNext and DispatchExit, interleaved freely with other requests and   *)
(* with changes of the model directory on disk.                            *)
(*                                                                         *)
(* Four specifications run the same actions over different inputs:         *)
(*   Spec            the whole service: every route, every header profile, *)
(*                   every behaviour of the model, a few deployments;      *)
(*   SpecLoader      the model cache: /predict requests with a             *)
(*                   well-behaved model, over every model directory state; *)
(*   SpecValidation  the validation boundary: every kind of /predict body; *)
(*   SpecDispatch    the middleware around every route, call_next          *)
(*                   returning a response or raising.                      *)
(* Three more cover api/app/utils/logging.py on its own:                   *)
(*   SpecLogging     init_logging and JsonFormatter over every state of    *)
(*                   the log directory and every shape of record;          *)
(*   SpecFingerprint features_hash over every payload and key order;       *)
(*   SpecClientIp    client_ip_from_request over every combination of its  *)
(*                   three address sources.                                *)
(***************************************************************************)
EXTENDS Integers, Sequences, FiniteSets, TLC

\* ------------------------------------------------------------------ bounds
MaxReq == 2         \* requests handled by the process
MaxInitCalls == 3   \* calls of init_logging

Req == 1..MaxReq

\* ----------------------------------------------------- Python-level helpers
\* An optional value (None or a value) is a sequence of length 0 or 1.
None == <<>>
Some(v) == <<v>>

\* Header values that are split and stripped are sequences of characters.
RECURSIVE LStrip(_)
LStrip(s) == IF s # <<>> /\ Head(s) = " " THEN LStrip(Tail(s)) ELSE s

RECURSIVE RStrip(_)
RStrip(s) ==
    IF s # <<>> /\ s[Len(s)] = " " THEN RStrip(SubSeq(s, 1, Len(s) - 1)) ELSE s

\* str.strip()
Strip(s) == RStrip(LStrip(s))

\* The first element of str.split(","): the characters before the first comma.
RECURSIVE FirstToken(_)
FirstToken(s) ==
    IF s = <<>> \/ Head(s) = "," THEN <<>> ELSE <<Head(s)>> \o FirstToken(Tail(s))

\* Python truthiness of an optional string: present and not empty.
Truthy(opt) == opt # None /\ opt[1] # <<>>

\* (mutation of client_ip_from_request) x-real-ip is preferred to x-forwarded-for
client_ip_from_request_RealIpFirst(request) ==
    IF Truthy(request.xrip) THEN Strip(request.xrip[1])
    ELSE IF Truthy(request.xff) THEN Strip(FirstToken(request.xff[1]))
    ELSE IF request.client # None THEN request.client[1]
    ELSE <<>>

\* client_ip_from_request(request)
client_ip_from_request(request) ==
    IF Truthy(request.xff) THEN Strip(FirstToken(request.xff[1]))
    ELSE IF Truthy(request.xrip) THEN Strip(request.xrip[1])
    ELSE IF request.client # None THEN request.client[1]
    ELSE <<>>

\* --------------------------------------------------------- feature records
ordered_keys ==
    << "MedInc", "HouseAge", "AveRooms", "AveBedrms",
       "Population", "AveOccup", "Latitude", "Longitude" >>

expected_columns == ordered_keys \o << "rooms_per_person" >>

\* sorted(): the key names that occur, in the order of their code points
SortedKeys ==
    << "AveBedrms", "AveOccup", "AveRooms", "HouseAge",
       "Latitude", "Longitude", "MedInc", "Population", "rooms_per_person" >>

\* A body the client sends: a JSON object of numeric fields.
Body(rooms, pop, occ) ==
    [ MedInc |-> 8, HouseAge |-> 41, AveRooms |-> rooms, AveBedrms |-> 1,
      Population |-> pop, AveOccup |-> occ, Latitude |-> 37, Longitude |-> -122 ]

MissingFieldBody ==
    [ HouseAge |-> 41, AveRooms |-> 6, AveBedrms |-> 1,
      Population |-> 322, AveOccup |-> 2, Latitude |-> 37, Longitude |-> -122 ]

\* A JSON body is held as its numeric members (body) and its string members
\* (text).  No string members:
NoText == <<>>

\* float(s) on the text of a string member: defined on numerals only
FloatOfText == [ s \in { "41" } |-> 41 ]

FieldNames == { ordered_keys[i] : i \in 1..Len(ordered_keys) }

\* HousingFeatures: the eight float fields are required; a member validates
\* when it is a number or a string float() accepts; other members are ignored.
HousingFeaturesValid(body, text) ==
    \A k \in FieldNames :
        k \in DOMAIN body \/ (k \in DOMAIN text /\ text[k] \in DOMAIN FloatOfText)

\* The validated model: the eight fields, coerced to numbers.
HousingFeatures(body, text) ==
    [ k \in FieldNames |-> IF k \in DOMAIN body THEN body[k] ELSE FloatOfText[text[k]] ]

\* A dict is the sequence of its items << key, value >> in insertion order.
DictKeys(d) == { d[i][1] : i \in DOMAIN d }

\* dict.get(k): the value, or None
DictGet(d, k) ==
    IF k \in DictKeys(d) THEN Some(d[CHOOSE i \in DOMAIN d : d[i][1] = k][2]) ELSE None

\* features.dict(): the fields in the order the model declares them
FeaturesDict(features) ==
    [ i \in 1..Len(ordered_keys) |-> << ordered_keys[i], features[ordered_keys[i]] >> ]

\* json.dumps(data, separators=(",", ":")): the items in the order of the
\* dict, every value rendered as JSON text (None as null).
JsonValue(v) == IF v = None THEN "null" ELSE ToString(v[1])

JsonDumps(data) == [ i \in DOMAIN data |-> << data[i][1], JsonValue(data[i][2]) >> ]

\* sha256(...).hexdigest()[:16]: a digest is determined by the hashed text.
Sha256Hex16(text) == [ sha256 |-> text ]

\* (mutation of features_hash) the payload's own items, in the payload's order,
\* kept when their key is among the given keys
features_hash_InsertionOrder(payload, keys) ==
    LET order == IF keys # <<>> THEN keys
                 ELSE SelectSeq(SortedKeys, LAMBDA k : k \in DictKeys(payload))
        kept == SelectSeq(payload, LAMBDA item : \E i \in DOMAIN order : order[i] = item[1])
    IN  Sha256Hex16(JsonDumps([ i \in DOMAIN kept |-> << kept[i][1], Some(kept[i][2]) >> ]))

\* features_hash(payload, ordered_keys): the dict comprehension over the given
\* keys, or over the payload's sorted keys when no order is given.
features_hash(payload, keys) ==
    LET order == IF keys # <<>> THEN keys
                 ELSE SelectSeq(SortedKeys, LAMBDA k : k \in DictKeys(payload))
        data == [ i \in 1..Len(order) |-> << order[i], DictGet(payload, order[i]) >> ]
    IN  Sha256Hex16(JsonDumps(data))

\* ---------------------------------------------------- floating point values
\* A float is a rational num/den (den > 0), or inf, -inf or nan.
Fin(n, d) == [ kind |-> "fin", num |-> n, den |-> d ]
Inf == [ kind |-> "inf", num |-> 1, den |-> 0 ]
NegInf == [ kind |-> "inf", num |-> -1, den |-> 0 ]
NaN == [ kind |-> "nan", num |-> 0, den |-> 0 ]

IsFinite(x) == x.kind = "fin"

\* a / b on float columns (pandas: x/0 is +-inf, 0/0 is nan, nothing is raised)
FloatDiv(a, b) ==
    IF b = 0 THEN (IF a = 0 THEN NaN ELSE IF a > 0 THEN Inf ELSE NegInf)
    ELSE IF b > 0 THEN Fin(a, b) ELSE Fin(-a, -b)

FloatEq(x, y) ==
    /\ x.kind = y.kind
    /\ x.kind # "nan"
    /\ x.num * y.den = y.num * x.den

\* Serving side: df['rooms_per_person'] = df['AveRooms'] / df['Population']
ServingRoomsPerPerson(feat) == FloatDiv(feat.AveRooms, feat.Population)

\* Training side (engineer_features): Population.replace(0, 1), then
\* AveRooms * AveOccup / population_safe
population_safe(feat) == IF feat.Population = 0 THEN 1 ELSE feat.Population

EngineerRoomsPerPerson(feat) ==
    FloatDiv(feat.AveRooms * feat.AveOccup, population_safe(feat))

\* ------------------------------------------------------------- log records
\* logger.info / logger.error: the record keeps the message, the level, the
\* extra attributes and whether exception information was attached.
LogRecord(level, message, extra, exc_info) ==
    [ level |-> level, message |-> message, extra |-> extra, exc_info |-> exc_info ]

\* ------------------------------------------------------------ JsonFormatter
SERVICE_NAME == "california_housing_api"
APP_ENV == "production"

\* the attributes JsonFormatter.format copies from a record (lines 42-46)
AllowedKeys ==
    << "request_id", "client_ip", "route", "method", "status_code", "latency_ms",
       "event", "features_hash", "predicted_value", "error", "model_path" >>

\* the keys format always writes
FixedKeys == { "ts", "level", "service", "env", "message", "logger" }

\* payload[k] = v on a dict: in place when the key exists, appended otherwise
DictSet(d, k, v) ==
    IF k \in DictKeys(d)
    THEN [ i \in DOMAIN d |-> IF d[i][1] = k THEN << k, v >> ELSE d[i] ]
    ELSE Append(d, << k, v >>)

\* self.formatException(record.exc_info)
FormatException == << "Traceback (most recent call last)" >>

\* (mutation of JsonFormatter_format) every extra attribute of the record is written
JsonFormatter_format_AllExtras(record) ==
    LET names == SelectSeq(AllowedKeys \o << "features", "user_agent" >>,
                           LAMBDA k : k \in DOMAIN record.extra)
        payload ==
            << << "ts", << "utc", record.created >> >>,
               << "level", record.level >>,
               << "service", SERVICE_NAME >>,
               << "env", APP_ENV >>,
               << "message", record.message >> >>
            \o [ i \in 1..Len(names) |-> << names[i], record.extra[names[i]] >> ]
            \o << << "logger", record.name >> >>
        error == DictGet(payload, "error")
    IN  IF record.exc_info
        THEN DictSet(payload, "error", IF Truthy(error) THEN error[1] ELSE FormatException)
        ELSE payload

\* (mutation of JsonFormatter_format) the traceback is written whenever there is exc_info
JsonFormatter_format_TracebackFirst(record) ==
    LET present == SelectSeq(AllowedKeys, LAMBDA k : k \in DOMAIN record.extra)
        payload ==
            << << "ts", << "utc", record.created >> >>,
               << "level", record.level >>,
               << "service", SERVICE_NAME >>,
               << "env", APP_ENV >>,
               << "message", record.message >> >>
            \o [ i \in 1..Len(present) |-> << present[i], record.extra[present[i]] >> ]
            \o << << "logger", record.name >> >>
    IN  IF record.exc_info THEN DictSet(payload, "error", FormatException) ELSE payload

\* JsonFormatter.format(record): the payload json.dumps serialises.  A record
\* has an attribute for every key of the `extra` it was logged with.
JsonFormatter_format(record) ==
    LET present == SelectSeq(AllowedKeys, LAMBDA k : k \in DOMAIN record.extra)
        payload ==
            << << "ts", << "utc", record.created >> >>,
               << "level", record.level >>,
               << "service", SERVICE_NAME >>,
               << "env", APP_ENV >>,
               << "message", record.message >> >>
            \o [ i \in 1..Len(present) |-> << present[i], record.extra[present[i]] >> ]
            \o << << "logger", record.name >> >>
        error == DictGet(payload, "error")
    IN  IF record.exc_info
        THEN DictSet(payload, "error", IF Truthy(error) THEN error[1] ELSE FormatException)
        ELSE payload

\* ------------------------------------------------------------ init_logging
LOG_LEVEL == "INFO"

UvicornLoggers == { "uvicorn", "uvicorn.error", "uvicorn.access" }

LoggerNames == { "app" } \cup UvicornLoggers

\* a logger as logging.getLogger(name) first creates it
NewLogger == [ handlers |-> <<>>, level |-> "NOTSET", propagate |-> TRUE ]

\* LOG_DIR on disk: a writable directory, absent but creatable, or neither
\* (a read-only parent, a file of that name)
LogDirStates == { "present", "creatable", "blocked" }

\* ensure_log_dir(path): os.makedirs(path, exist_ok=True), any Exception passed over
ensure_log_dir(dir) == IF dir = "creatable" THEN "present" ELSE dir

\* build_file_handler(): RotatingFileHandler(LOG_FILE, ...) opens the file when
\* it is constructed and raises OSError when the directory is not there.
\* call numbers the init_logging call that builds the handler.
build_file_handler(dir, call) ==
    LET made == ensure_log_dir(dir)
    IN  [ dir |-> made,
          raised |-> made # "present",
          handler |-> [ kind |-> "RotatingFileHandler", call |-> call ] ]

\* build_stdout_handler()
build_stdout_handler(call) == [ kind |-> "StreamHandler", call |-> call ]

\* init_logging(): what it leaves of the loggers and the directory, and
\* whether it raised instead of returning the logger.
init_logging(lgs, dir, call) ==
    IF lgs["app"].handlers # <<>>
    THEN [ loggers |-> lgs, dir |-> dir, raised |-> FALSE ]
    ELSE LET leveled == [ lgs EXCEPT !["app"].level = LOG_LEVEL ]
             built == build_file_handler(dir, call)
             sinks == << built.handler, build_stdout_handler(call) >>
             wired == [ handlers |-> sinks, level |-> LOG_LEVEL, propagate |-> FALSE ]
         IN  IF built.raised
             THEN [ loggers |-> leveled, dir |-> built.dir, raised |-> TRUE ]
             ELSE [ loggers |-> [ n \in LoggerNames |-> wired ],
                    dir |-> built.dir, raised |-> FALSE ]

\* Handler.handle(record) of a sink: format and write inside emit's
\* try/except, which hands any Exception to handleError; nothing is raised.
\* fault: the write fails (disk full, closed stream).
HandlerEmit(handler, record, fault) ==
    [ sink |-> handler.kind,
      line |-> IF fault THEN None ELSE Some(JsonFormatter_format(record)),
      raised |-> FALSE ]

\* logger.info / logger.error on a logger: every handler gets the record.
LoggerHandle(logger, record, faults) ==
    LET outs == [ i \in DOMAIN logger.handlers |->
                    HandlerEmit(logger.handlers[i], record, faults[i]) ]
    IN  [ record |-> record, outs |-> outs,
          raised |-> \E i \in DOMAIN outs : outs[i].raised ]

\* ---------------------------------------------------------- model directory
DefaultFilename == "california-housing-regressor_latest.pkl"
\* a file name a metadata descriptor may carry under 'model_filename'
NamedFilename == "california-housing-regressor_v1.pkl"

\* california-housing-regressor_metadata.json: absent, unparseable, a JSON
\* object naming the model file, or a JSON object without 'model_filename'
\* (what save_model_metadata writes).
MetaStates == { "absent", "corrupt", "named", "nokey" }
\* a model file: absent, loadable, or present and not loadable by joblib
FileStates == { "absent", "ok", "corrupt" }

FsStates == [ meta : MetaStates, latest : FileStates, named : { "absent", "ok" } ]

FileState(dir, filename) == IF filename = DefaultFilename THEN dir.latest ELSE dir.named

\* ------------------------------------------------------------- load_model
\* Lines 24-33: the file name the metadata resolves to;
\* None when reading the metadata raises (json.load on an unparseable file).
ResolveModelFilename(dir) ==
    IF dir.meta # "absent"
    THEN (IF dir.meta = "corrupt" THEN None
          ELSE IF dir.meta = "named" THEN Some(NamedFilename)
          ELSE Some(DefaultFilename))
    ELSE Some(DefaultFilename)

\* The storage accesses of lines 25-27.
MetadataOps(dir) ==
    IF dir.meta # "absent" THEN << "exists:metadata", "open:metadata" >>
    ELSE << "exists:metadata" >>

ModelLoadedEvent(model_path) ==
    LogRecord("INFO", "model loaded",
              [ event |-> "model_loaded", model_path |-> Some(model_path) ], FALSE)

ModelLoadFailedEvent(model_path, error) ==
    LogRecord("ERROR", "model load failed",
              [ event |-> "model_load_failed", model_path |-> model_path, error |-> error ],
              TRUE)

\* (mutation of LoadFailure) the error re-raised without the 'model load failed' event
LoadFailure_Silent(model_path, error, ops) ==
    [ ok |-> FALSE, model |-> None, error |-> error, ops |-> ops, events |-> <<>> ]

\* The except clause of load_model (lines 53-63): one event, then the error re-raised.
LoadFailure(model_path, error, ops) ==
    [ ok |-> FALSE, model |-> None, error |-> error, ops |-> ops,
      events |-> << ModelLoadFailedEvent(model_path, error) >> ]

\* The body of load_model (lines 15-63); obj is the identity of the object
\* joblib.load would create.
load_model_body(dir, obj) ==
    LET resolved == ResolveModelFilename(dir)
    IN  IF resolved = None
        THEN LoadFailure(None, << "JSONDecodeError" >>, MetadataOps(dir))
        ELSE LET model_path == resolved[1]
             IN  IF FileState(dir, model_path) = "absent"
                 THEN LoadFailure(Some(model_path),
                                  << "Model file not found at", model_path >>,
                                  MetadataOps(dir) \o << "exists:model" >>)
                 ELSE IF FileState(dir, model_path) = "corrupt"
                 THEN LoadFailure(Some(model_path), << "UnpicklingError" >>,
                                  MetadataOps(dir) \o << "exists:model", "joblib.load" >>)
                 ELSE [ ok |-> TRUE,
                        model |-> Some([ id |-> obj, path |-> model_path ]),
                        error |-> <<>>,
                        ops |-> MetadataOps(dir) \o << "exists:model", "joblib.load" >>,
                        events |-> << ModelLoadedEvent(model_path) >> ]

\* (mutation of CacheHit) a cache that never finds its entry
CacheHit_NeverHits(slot) == FALSE

\* (mutation of CacheStore) a cache that also keeps the outcome of a call that raised
CacheStore_KeepsFailures(slot, res) ==
    << [ ok |-> res.ok, model |-> res.model, error |-> res.error ] >>

\* lru_cache(maxsize=1) around a function of no arguments: one slot.
\* A call hits when the slot is filled.
CacheHit(slot) == slot # <<>>

\* The slot is filled when the wrapped function returns; an exception leaves it.
CacheStore(slot, res) ==
    IF res.ok THEN << [ ok |-> res.ok, model |-> res.model, error |-> res.error ] >>
    ELSE slot

\* load_model(): the cached result without running the body, or the body.
load_model(slot, dir, obj) ==
    IF CacheHit(slot)
    THEN [ ok |-> slot[1].ok, model |-> slot[1].model, error |-> slot[1].error,
           ops |-> <<>>, events |-> <<>>, hit |-> TRUE, slot |-> slot ]
    ELSE LET res == load_model_body(dir, obj)
         IN  [ ok |-> res.ok, model |-> res.model, error |-> res.error,
               ops |-> res.ops, events |-> res.events, hit |-> FALSE,
               slot |-> CacheStore(slot, res) ]

\* --------------------------------------------------------- request context
\* (mutation of request_log_context) the id kept in one slot shared by all
\* requests: every request logs with the id generated for the first one
request_log_context_FirstRequest(request, request_id) ==
    [ request_id |-> << "uuid4-", "1" >>,
      client_ip |-> client_ip_from_request(request),
      route |-> request.path,
      method |-> request.method ]

\* request_log_context(request): request.state.request_id is the id the
\* middleware stored before the route's dependencies run.
request_log_context(request, request_id) ==
    [ request_id |-> request_id,
      client_ip |-> client_ip_from_request(request),
      route |-> request.path,
      method |-> request.method ]

\* ------------------------------------------------------- Prometheus counters
\* (mutation of CounterInc) a read-modify-write from a value read before
\* another request's update: the second update is lost
CounterInc_StaleRead(c) == IF c = 0 THEN 1 ELSE c

\* (mutation of CounterInc) the value moves down, as a Gauge's dec() does
CounterInc_Dec(c) == c - 1

\* Counter.inc()
CounterInc(c) == c + 1

\* --------------------------------------------------- predict_housing_price
PredictionRequestReceivedEvent(ctx, fhash) ==
    LogRecord("INFO", "prediction request received",
              [ event |-> "prediction_request_received",
                request_id |-> ctx.request_id, client_ip |-> ctx.client_ip,
                route |-> ctx.route, method |-> ctx.method,
                features_hash |-> fhash ], FALSE)

\* (mutation of PredictionCompletedEvent) the event without the model's value
PredictionCompletedEvent_ValueDropped(ctx, latency_ms, fhash, predicted_value) ==
    LogRecord("INFO", "prediction completed",
              [ event |-> "prediction_completed",
                request_id |-> ctx.request_id, client_ip |-> ctx.client_ip,
                route |-> ctx.route, method |-> ctx.method,
                status_code |-> 200, latency_ms |-> latency_ms,
                features_hash |-> fhash, predicted_value |-> 0 ], FALSE)

PredictionCompletedEvent(ctx, latency_ms, fhash, predicted_value) ==
    LogRecord("INFO", "prediction completed",
              [ event |-> "prediction_completed",
                request_id |-> ctx.request_id, client_ip |-> ctx.client_ip,
                route |-> ctx.route, method |-> ctx.method,
                status_code |-> 200, latency_ms |-> latency_ms,
                features_hash |-> fhash, predicted_value |-> predicted_value ], FALSE)

PredictionFailedEvent(ctx, latency_ms, fhash, error) ==
    LogRecord("ERROR", "prediction failed",
              [ event |-> "prediction_failed",
                request_id |-> ctx.request_id, client_ip |-> ctx.client_ip,
                route |-> ctx.route, method |-> ctx.method,
                status_code |-> 500, latency_ms |-> latency_ms,
                features_hash |-> fhash, error |-> error ], TRUE)

\* Lines 52-62: the single row handed to model.predict, in expected_columns order.
EngineeredRow(feat_dict) ==
    [ i \in 1..Len(expected_columns) |->
        IF expected_columns[i] = "rooms_per_person"
        THEN << expected_columns[i], ServingRoomsPerPerson(feat_dict) >>
        ELSE << expected_columns[i], Fin(feat_dict[expected_columns[i]], 1) >> ]

\* What model.predict(df) followed by float(prediction) does is the artifact's
\* business: it yields a number, raises an Exception, or raises an error that is
\* no Exception (a BaseException such as KeyboardInterrupt or SystemExit).
PredictedValues == { 2 }

PredictOutcomes ==
    [ kind : { "value" }, value : PredictedValues ]
        \cup [ kind : { "raise", "raiseBase" }, value : { 0 } ]

\* str(e) of what model.predict raises
PredictErrorText == << "ValueError: model.predict failed" >>

\* time.perf_counter() - start, in ms: one tick per storage access and per
\* call of the model since start.
ElapsedMs(ops, predictCalls) == Len(ops) + predictCalls

\* (mutation of SuccessCountAfterTry) SUCCESS_COUNT.inc() ahead of the calls that can raise
SuccessCountAfterTry_Early(successes, predicted) == CounterInc(successes)

\* (mutation of SuccessCountAfterTry) SUCCESS_COUNT.inc() placed in the except clause
SuccessCountAfterTry_InExcept(successes, predicted) ==
    IF predicted THEN successes ELSE CounterInc(successes)

\* The success counter after the try block (lines 64-68): incremented once the
\* prediction has been made and converted.
SuccessCountAfterTry(successes, predicted) ==
    IF predicted THEN CounterInc(successes) ELSE successes

\* (mutation of ExceptClause) the exception's text left out of the log and the detail
ExceptClause_NoMessage(ctx, latency_ms, fhash, error) ==
    [ events |-> << PredictionFailedEvent(ctx, latency_ms, fhash, <<>>) >>,
      result |-> [ kind |-> "HTTPException", status_code |-> 500,
                   body |-> [ detail |-> << "Prediction failed: " >> ] ] ]

\* The except clause (lines 88-108): the logged event and the HTTPException.
ExceptClause(ctx, latency_ms, fhash, error) ==
    [ events |-> << PredictionFailedEvent(ctx, latency_ms, fhash, error) >>,
      result |-> [ kind |-> "HTTPException", status_code |-> 500,
                   body |-> [ detail |-> << "Prediction failed: " >> \o error ] ] ]

\* (mutation of HandlerSteps) REQUEST_COUNT.inc() moved into the try block,
\* after the model is obtained
HandlerSteps_CountAfterLoad(loaded_ok, outcome_kind) ==
    << "prediction_request_received", "load_model", "REQUEST_COUNT.inc" >>
        \o ( IF loaded_ok THEN << "model.predict" >> ELSE <<>> )
        \o ( IF loaded_ok /\ outcome_kind = "value"
             THEN << "SUCCESS_COUNT.inc", "prediction_completed" >>
             ELSE IF ~loaded_ok \/ outcome_kind = "raise"
             THEN << "prediction_failed" >>
             ELSE <<>> )

\* The order in which the body of predict_housing_price does what it does
\* (lines 28-108), given whether load_model() returned and what the model did.
HandlerSteps(loaded_ok, outcome_kind) ==
    << "REQUEST_COUNT.inc", "prediction_request_received", "load_model" >>
        \o ( IF loaded_ok THEN << "model.predict" >> ELSE <<>> )
        \o ( IF loaded_ok /\ outcome_kind = "value"
             THEN << "SUCCESS_COUNT.inc", "prediction_completed" >>
             ELSE IF ~loaded_ok \/ outcome_kind = "raise"
             THEN << "prediction_failed" >>
             ELSE <<>> )

\* predict_housing_price(features, ctx, request): the whole body, one step of
\* the event loop.  slot/dir/obj are what load_model reads, requests/successes
\* the two counters, outcome what the model does when called.
predict_housing_price(features, ctx, slot, dir, obj, requests, successes, outcome) ==
    LET fhash == features_hash(FeaturesDict(features), ordered_keys)
        received == PredictionRequestReceivedEvent(ctx, fhash)
        loaded == load_model(slot, dir, obj)
        predictCalls == IF loaded.ok THEN 1 ELSE 0
        latency_ms == ElapsedMs(loaded.ops, predictCalls)
        predicted == loaded.ok /\ outcome.kind = "value"
        caught == ~loaded.ok \/ outcome.kind = "raise"
        error == IF ~loaded.ok THEN loaded.error ELSE PredictErrorText
        handled == ExceptClause(ctx, latency_ms, fhash, error)
    IN  [ REQUEST_COUNT |-> CounterInc(requests),
          SUCCESS_COUNT |-> SuccessCountAfterTry(successes, predicted),
          slot |-> loaded.slot,
          loaded |-> [ ok |-> loaded.ok, hit |-> loaded.hit, model |-> loaded.model,
                       error |-> loaded.error, ops |-> loaded.ops ],
          row |-> IF loaded.ok THEN Some(EngineeredRow(features)) ELSE None,
          predict |-> IF loaded.ok THEN outcome.kind ELSE "notcalled",
          steps |-> HandlerSteps(loaded.ok, outcome.kind),
          log |-> << received >> \o loaded.events \o
                  ( IF predicted
                    THEN << PredictionCompletedEvent(ctx, latency_ms, fhash, outcome.value) >>
                    ELSE IF caught THEN handled.events
                    ELSE <<>> ),
          result |-> IF predicted
                     THEN [ kind |-> "return", status_code |-> 200,
                            body |-> [ predicted_value |-> outcome.value ] ]
                     ELSE IF caught THEN handled.result
                     ELSE [ kind |-> "BaseException", status_code |-> 0,
                            body |-> [ detail |-> << "BaseException" >> ] ] ]

\* (mutation of health_check) a health check that reports on the model
health_check_ModelState ==
    [ kind |-> "return", status_code |-> 503, body |-> [ status |-> "model not loaded" ] ]

\* health_check()
health_check == [ kind |-> "return", status_code |-> 200, body |-> [ status |-> "ok" ] ]

\* metrics(): generate_latest() renders the two counters.
metrics(requests, successes) ==
    [ kind |-> "return", status_code |-> 200,
      body |-> [ prediction_requests_total |-> requests,
                 successful_predictions_total |-> successes ] ]

\* (mutation of ValidationRejected) the rejection reported as a plain bad request
ValidationRejected_BadRequest ==
    [ kind |-> "return", status_code |-> 400, body |-> [ detail |-> << "validation error" >> ] ]

\* The framework's answer to a body HousingFeatures rejects (tests: 422).
ValidationRejected ==
    [ kind |-> "return", status_code |-> 422, body |-> [ detail |-> << "validation error" >> ] ]

\* A handler that was never run leaves nothing behind.
NotRun ==
    [ ran |-> FALSE,
      loaded |-> [ ok |-> FALSE, hit |-> FALSE, model |-> None, error |-> <<>>, ops |-> <<>> ],
      row |-> None,
      predict |-> "notcalled",
      steps |-> <<>>,
      result |-> [ kind |-> "none", status_code |-> 0, body |-> [ detail |-> <<>> ] ] ]

\* ---------------------------------------------------------------- routing
\* What the application below the middleware does with a request: the route's
\* handler, or the framework's 422 when HousingFeatures rejects the body.
Route(request, request_id, slot, dir, obj, requests, successes, outcome) ==
    LET idle == [ REQUEST_COUNT |-> requests, SUCCESS_COUNT |-> successes,
                  slot |-> slot, loaded |-> NotRun.loaded, row |-> None,
                  predict |-> "notcalled", steps |-> <<>>, log |-> <<>> ]
    IN  IF request.path = "/health"
        THEN idle @@ [ ran |-> TRUE, result |-> health_check ]
        ELSE IF request.path = "/metrics"
        THEN idle @@ [ ran |-> TRUE, result |-> metrics(requests, successes) ]
        ELSE IF ~HousingFeaturesValid(request.body, request.text)
        THEN idle @@ [ ran |-> FALSE, result |-> ValidationRejected ]
        ELSE predict_housing_price(HousingFeatures(request.body, request.text),
                                   request_log_context(request, request_id),
                                   slot, dir, obj, requests, successes, outcome)
                 @@ [ ran |-> TRUE ]

\* The response the framework builds from what the handler returned or from
\* the HTTPException it raised; no header is set yet.
Response(result) ==
    [ status_code |-> result.status_code, body |-> result.body,
      headers |-> [ x_request_id |-> None ] ]

\* ------------------------------------------------- RequestContextMiddleware
\* Default exclude paths (LOG_EXCLUDE_PATHS unset)
EXCLUDE_PATHS == { "/health", "/metrics" }

\* str(uuid.uuid4()): a fresh identifier for every call
Uuid4(r) == << "uuid4-", ToString(r) >>

\* (mutation of RequestId) the inbound header ignored
RequestId_AlwaysNew(request, r) == Uuid4(r)

\* request.headers.get("x-request-id") or str(uuid.uuid4())
RequestId(request, r) == IF Truthy(request.xrid) THEN request.xrid[1] ELSE Uuid4(r)

RequestCompletedEvent(request, request_id, status_code, latency_ms) ==
    LogRecord("INFO", "request completed",
              [ request_id |-> request_id,
                client_ip |-> client_ip_from_request(request),
                route |-> request.path, method |-> request.method,
                status_code |-> status_code, latency_ms |-> latency_ms,
                event |-> "request_completed" ], FALSE)

\* (mutation of StampHeader) the header set on successful responses only
StampHeader_SuccessOnly(response, request_id) ==
    IF response # None /\ response[1].status_code < 400
    THEN Some([ response[1] EXCEPT !.headers.x_request_id = Some(request_id) ])
    ELSE response

\* if response is not None: response.headers["X-Request-ID"] = request_id
StampHeader(response, request_id) ==
    IF response # None
    THEN Some([ response[1] EXCEPT !.headers.x_request_id = Some(request_id) ])
    ELSE response

\* (mutation of dispatch_finally) the completion event logged after the try
\* block instead of in a finally block: skipped when call_next raised
dispatch_finally_AfterTry(request, request_id, response, status_code, latency_ms) ==
    [ response |-> StampHeader(response, request_id),
      returns |-> request.path \in EXCLUDE_PATHS,
      events |-> IF request.path \in EXCLUDE_PATHS \/ response = None THEN <<>>
                 ELSE << RequestCompletedEvent(request, request_id,
                                               status_code, latency_ms) >> ]

\* The finally block of dispatch (lines 139-156).  returns: the block ended in
\* its own `return response`, which replaces whatever the try block was doing,
\* a pending exception included.
dispatch_finally(request, request_id, response, status_code, latency_ms) ==
    LET stamped == StampHeader(response, request_id)
    IN  IF request.path \in EXCLUDE_PATHS
        THEN [ response |-> stamped, returns |-> TRUE, events |-> <<>> ]
        ELSE [ response |-> stamped, returns |-> FALSE,
               events |-> << RequestCompletedEvent(request, request_id,
                                                   status_code, latency_ms) >> ]

\* dispatch from `await call_next` on: called is what call_next did
\* ("response" with the response, or "raise").
dispatch_after_call(request, request_id, called, latency_ms) ==
    LET response == IF called.kind = "response" THEN called.response ELSE None
        status_code == IF called.kind = "response" THEN called.response[1].status_code ELSE 500
        fin == dispatch_finally(request, request_id, response, status_code, latency_ms)
    IN  [ events |-> fin.events,
          outcome |-> IF called.kind = "response" \/ fin.returns
                      THEN [ kind |-> "return", response |-> fin.response ]
                      ELSE [ kind |-> "raise", response |-> None ] ]

\* --------------------------------------------------------------- requests
HeaderProfiles ==
    { [ xrid |-> None, xff |-> None, xrip |-> None, client |-> Some(<< "p" >>) ],
      [ xrid |-> Some(<< "a", "b" >>), xff |-> Some(<< "x", ",", " ", "y" >>),
        xrip |-> Some(<< "r" >>), client |-> Some(<< "p" >>) ],
      [ xrid |-> Some(<<>>), xff |-> None, xrip |-> Some(<< " ", "r" >>), client |-> None ] }

NoHeaders == [ xrid |-> None, xff |-> None, xrip |-> None, client |-> Some(<< "p" >>) ]

Predict(body) == [ method |-> "POST", path |-> "/predict", body |-> body, text |-> NoText ]

\* The requests a client of the service sends.
Requests ==
    { Predict(Body(6, 3, 2)) @@ h : h \in HeaderProfiles }
        \cup { Predict(Body(6, 0, 2)) @@ NoHeaders,
               Predict(MissingFieldBody) @@ NoHeaders }
        \cup { [ method |-> "GET", path |-> p, body |-> <<>>, text |-> NoText ] @@ NoHeaders :
                 p \in { "/health", "/metrics" } }

\* The model directory as deployments leave it: nothing saved yet, or what
\* save_model.py writes (both model files, metadata without 'model_filename').
Deployments ==
    { [ meta |-> "absent", latest |-> "absent", named |-> "absent" ],
      [ meta |-> "nokey", latest |-> "ok", named |-> "ok" ] }

\* Inputs of SpecValidation: bodies HousingFeatures accepts and rejects.
PredictText(body, text) ==
    [ method |-> "POST", path |-> "/predict", body |-> body, text |-> text ]

\* "MedInc": "invalid_string"
WrongTypeBody == PredictText(MissingFieldBody, [ MedInc |-> "invalid_string" ])

\* "HouseAge": "41", a string float() accepts
NumericStringBody ==
    PredictText([ MedInc |-> 8, AveRooms |-> 6, AveBedrms |-> 1, Population |-> 3,
                  AveOccup |-> 2, Latitude |-> 37, Longitude |-> -122 ],
                [ HouseAge |-> "41" ])

\* a member HousingFeatures does not declare
ExtraMemberBody == Predict(Body(6, 3, 2) @@ [ rooms_per_person |-> 2 ])

ValidationRequests ==
    { t @@ NoHeaders :
        t \in { Predict(Body(6, 3, 2)), Predict(MissingFieldBody), Predict(<<>>),
                WrongTypeBody, NumericStringBody, ExtraMemberBody } }

\* Inputs of SpecLogging: records as logger.info(msg, extra=...) and
\* logger.error(msg, extra=..., exc_info=True) create them.
ExtraAttrValue ==
    [ request_id |-> << "r" >>, predicted_value |-> 2,
      features |-> << "raw" >>, user_agent |-> << "ua" >> ]

ErrorTexts == { <<>>, << "boom" >> }

Extras ==
    { [ k \in keys |-> ExtraAttrValue[k] ] : keys \in SUBSET DOMAIN ExtraAttrValue }
        \cup { [ k \in keys \cup { "error" } |->
                   IF k = "error" THEN e ELSE ExtraAttrValue[k] ] :
                 keys \in SUBSET DOMAIN ExtraAttrValue, e \in ErrorTexts }

EmitRecords ==
    { [ level |-> IF x THEN "ERROR" ELSE "INFO", message |-> "event", name |-> "app",
        created |-> 1700000000, extra |-> e, exc_info |-> x ] :
      e \in Extras, x \in BOOLEAN }

\* Inputs of SpecFingerprint: dicts over a few keys in every insertion order,
\* and the key orders a caller passes (none, or an explicit one).
HashKeys == { "AveRooms", "Population", "rooms_per_person" }

Payloads ==
    UNION { { d \in [ 1..n -> HashKeys \X { 1, 2 } ] :
                \A i, j \in 1..n : d[i][1] = d[j][1] => i = j } :
            n \in 0..Cardinality(HashKeys) }

KeyOrders == { <<>>, << "Population", "AveRooms" >> }

\* Inputs of SpecDispatch: one request per route.
DispatchRequests ==
    { Predict(Body(6, 3, 2)) @@ NoHeaders }
        \cup { [ method |-> "GET", path |-> p, body |-> <<>>, text |-> NoText ] @@ NoHeaders :
                 p \in { "/health", "/metrics" } }

\* Inputs of SpecClientIp: the address sources of a request, each absent,
\* empty, blank or holding an address.
XffValues ==
    { None, Some(<<>>), Some(<< " " >>), Some(<< ",", "y" >>), Some(<< "x" >>),
      Some(<< " ", "x", " " >>), Some(<< "x", ",", " ", "y" >>) }

XripValues == { None, Some(<<>>), Some(<< " " >>), Some(<< "r" >>), Some(<< " ", "r" >>) }

ClientValues == { None, Some(<< "p" >>), Some(<< "q" >>) }

AddressRequests ==
    { [ xff |-> f, xrip |-> i, client |-> c ] :
        f \in XffValues, i \in XripValues, c \in ClientValues }

\* Inputs of SpecLoader: one well-formed request, a model that predicts.
LoaderRequests == { Predict(Body(6, 3, 2)) @@ NoHeaders }
LoaderOutcomes == { o \in PredictOutcomes : o.kind = "value" /\ o.value = 2 }

\* ------------------------------------------------------------------- state
VARIABLES
    fs,             \* the model directory on disk
    slot,           \* the lru_cache slot of load_model
    nextObj,        \* identity of the next object joblib.load creates
    REQUEST_COUNT,  \* Counter('prediction_requests')
    SUCCESS_COUNT,  \* Counter('successful_predictions')
    phase,          \* per request: "idle", "awaiting", "returned", "done"
    request,        \* per request: the request, once received
    request_id,     \* per request: request.state.request_id, once set
    handler,        \* per request: what the route's handler did and was given
    called,         \* per request: what `await call_next(request)` did
    returned,       \* per request: what dispatch did (return / raise)
    log,            \* per request: the records logged while handling it
    cohort,         \* observation: the requests in flight together before any handler ran
    logDir,         \* LOG_DIR on disk
    loggers,        \* the loggers init_logging configures
    initCalls,      \* per init_logging call so far: "returned" or "raised"
    emitted,        \* what the last logger call on 'app' did
    hashed,         \* the last features_hash call: its arguments and its digest
    resolved        \* the last client_ip_from_request call: its request and its result

logvars == << logDir, loggers, initCalls, emitted, hashed, resolved >>

vars == << fs, slot, nextObj, REQUEST_COUNT, SUCCESS_COUNT, phase,
           request, request_id, handler, called, returned, log, cohort, logvars >>

Pending == [ kind |-> "pending", response |-> None ]

\* The process after import: empty cache, counters at zero, no request yet.
Started ==
    /\ slot = <<>>
    /\ nextObj = 1
    /\ REQUEST_COUNT = 0
    /\ SUCCESS_COUNT = 0
    /\ phase = [ r \in Req |-> "idle" ]
    /\ request = [ r \in Req |-> None ]
    /\ request_id = [ r \in Req |-> None ]
    /\ handler = [ r \in Req |-> NotRun ]
    /\ called = [ r \in Req |-> Pending ]
    /\ returned = [ r \in Req |-> Pending ]
    /\ log = [ r \in Req |-> <<>> ]
    /\ cohort = {}

\* main.py: logger = init_logging() at import, with a log directory in place
Imported ==
    /\ logDir = "present"
    /\ loggers = init_logging([ n \in LoggerNames |-> NewLogger ], "present", 1).loggers
    /\ initCalls = << "returned" >>
    /\ emitted = None
    /\ hashed = None
    /\ resolved = None

Init == fs \in Deployments /\ Started /\ Imported

InitLoader == fs \in FsStates /\ Started /\ Imported

NoHandlerRanYet == \A q \in Req : phase[q] \in { "idle", "awaiting" }

\* dispatch up to `await call_next(request)` (lines 128-136), for a request
\* drawn from `inputs`; requests are numbered in the order they are received
Enter(r, inputs) ==
    /\ phase[r] = "idle"
    /\ IF r = 1 THEN TRUE ELSE phase[r - 1] # "idle"
    /\ \E t \in inputs :
        /\ request' = [ request EXCEPT ![r] = Some(t) ]
        /\ request_id' = [ request_id EXCEPT ![r] = Some(RequestId(t, r)) ]
    /\ phase' = [ phase EXCEPT ![r] = "awaiting" ]
    /\ UNCHANGED << fs, slot, nextObj, REQUEST_COUNT, SUCCESS_COUNT,
                    handler, called, returned, log, logvars >>

DispatchEnter(r, inputs) == Enter(r, inputs) /\ UNCHANGED cohort

\* The same step, observed: cohort collects the requests that are in flight
\* together before the first handler runs (the concurrent first-time callers).
DispatchEnterObserved(r, inputs) ==
    /\ Enter(r, inputs)
    /\ cohort' = IF NoHandlerRanYet THEN cohort \cup { r } ELSE cohort

\* call_next(request): the application runs the route.  The awaiting dispatch
\* gets the response, or the error the handler let through.
CallNext(r, outcomes) ==
    /\ phase[r] = "awaiting"
    /\ \E outcome \in outcomes :
        \E run \in { Route(request[r][1], request_id[r][1], slot, fs, nextObj,
                           REQUEST_COUNT, SUCCESS_COUNT, outcome) } :
            /\ REQUEST_COUNT' = run.REQUEST_COUNT
            /\ SUCCESS_COUNT' = run.SUCCESS_COUNT
            /\ slot' = run.slot
            /\ nextObj' = IF run.loaded.ok /\ ~run.loaded.hit THEN nextObj + 1 ELSE nextObj
            /\ handler' = [ handler EXCEPT ![r] =
                              [ ran |-> run.ran, loaded |-> run.loaded,
                                row |-> run.row, predict |-> run.predict,
                                steps |-> run.steps, result |-> run.result ] ]
            /\ log' = [ log EXCEPT ![r] = @ \o run.log ]
            /\ called' = [ called EXCEPT ![r] =
                             IF run.result.kind = "BaseException"
                             THEN [ kind |-> "raise", response |-> None ]
                             ELSE [ kind |-> "response",
                                    response |-> Some(Response(run.result)) ] ]
    /\ phase' = [ phase EXCEPT ![r] = "returned" ]
    /\ UNCHANGED << fs, request, request_id, returned, cohort, logvars >>

\* `await call_next(request)` raises before the route's handler has changed
\* anything: the awaiting task is cancelled, the application returns no
\* response, or the handler fails at once (generate_latest() in metrics).
CallNextRaises(r) ==
    /\ phase[r] = "awaiting"
    /\ called' = [ called EXCEPT ![r] = [ kind |-> "raise", response |-> None ] ]
    /\ phase' = [ phase EXCEPT ![r] = "returned" ]
    /\ UNCHANGED << fs, slot, nextObj, REQUEST_COUNT, SUCCESS_COUNT,
                    request, request_id, handler, returned, log, cohort, logvars >>

\* dispatch from the return of call_next to its end (lines 137-156)
DispatchExit(r) ==
    /\ phase[r] = "returned"
    /\ LET latency_ms == ElapsedMs(handler[r].loaded.ops, Len(handler[r].row))
           done == dispatch_after_call(request[r][1], request_id[r][1], called[r], latency_ms)
       IN  /\ log' = [ log EXCEPT ![r] = @ \o done.events ]
           /\ returned' = [ returned EXCEPT ![r] = done.outcome ]
    /\ phase' = [ phase EXCEPT ![r] = "done" ]
    /\ UNCHANGED << fs, slot, nextObj, REQUEST_COUNT, SUCCESS_COUNT,
                    request, request_id, handler, called, cohort, logvars >>

\* The model directory changes under the running process: a deployment
\* replaces its content.
Deploy ==
    /\ \E d \in Deployments : d # fs /\ fs' = d
    /\ UNCHANGED << slot, nextObj, REQUEST_COUNT, SUCCESS_COUNT, phase, request,
                    request_id, handler, called, returned, log, cohort, logvars >>

\* One file of the model directory is written, replaced or removed.
FsWrite ==
    /\ \E d \in FsStates :
        /\ Cardinality({ f \in { "meta", "latest", "named" } : d[f] # fs[f] }) = 1
        /\ fs' = d
    /\ UNCHANGED << slot, nextObj, REQUEST_COUNT, SUCCESS_COUNT, phase, request,
                    request_id, handler, called, returned, log, cohort, logvars >>

Next ==
    \/ \E r \in Req : DispatchEnter(r, Requests)
    \/ \E r \in Req : CallNext(r, PredictOutcomes)
    \/ \E r \in Req : DispatchExit(r)
    \/ Deploy

Spec == Init /\ [][Next]_vars

NextLoader ==
    \/ \E r \in Req : DispatchEnterObserved(r, LoaderRequests)
    \/ \E r \in Req : CallNext(r, LoaderOutcomes)
    \/ \E r \in Req : DispatchExit(r)
    \/ FsWrite

SpecLoader == InitLoader /\ [][NextLoader]_vars

\* The validation boundary: every kind of /predict body, a model that predicts.
NextValidation ==
    \/ \E r \in Req : DispatchEnter(r, ValidationRequests)
    \/ \E r \in Req : CallNext(r, LoaderOutcomes)
    \/ \E r \in Req : DispatchExit(r)

SpecValidation == Init /\ [][NextValidation]_vars

\* The middleware around every route, call_next returning or raising.
NextDispatch ==
    \/ \E r \in Req : DispatchEnterObserved(r, DispatchRequests)
    \/ \E r \in Req : CallNext(r, PredictOutcomes)
    \/ \E r \in Req : CallNextRaises(r)
    \/ \E r \in Req : DispatchExit(r)

SpecDispatch == Init /\ [][NextDispatch]_vars

\* The serving side at rest
servevars == << fs, slot, nextObj, REQUEST_COUNT, SUCCESS_COUNT, phase,
                request, request_id, handler, called, returned, log, cohort >>

Unserved == fs \in Deployments /\ fs.latest = "ok" /\ Started

\* The logging pipeline: the process before main.py is imported, over every
\* state of the log directory.
InitLogging ==
    /\ Unserved
    /\ logDir \in LogDirStates
    /\ loggers = [ n \in LoggerNames |-> NewLogger ]
    /\ initCalls = <<>>
    /\ emitted = None
    /\ hashed = None
    /\ resolved = None

\* a call of init_logging(): the one of main.py, or a later one
InitLoggingCall ==
    /\ Len(initCalls) < MaxInitCalls
    /\ \E run \in { init_logging(loggers, logDir, Len(initCalls) + 1) } :
        /\ loggers' = run.loggers
        /\ logDir' = run.dir
        /\ initCalls' = Append(initCalls, IF run.raised THEN "raised" ELSE "returned")
    /\ UNCHANGED << servevars, emitted, hashed, resolved >>

\* logger.info(...) / logger.error(...) on the configured 'app' logger, the
\* sinks failing or not
Emit ==
    /\ loggers["app"].handlers # <<>>
    /\ \E record \in EmitRecords :
        \E faults \in [ DOMAIN loggers["app"].handlers -> BOOLEAN ] :
            emitted' = Some(LoggerHandle(loggers["app"], record, faults))
    /\ UNCHANGED << servevars, logDir, loggers, initCalls, hashed, resolved >>

NextLogging == InitLoggingCall \/ Emit

SpecLogging == InitLogging /\ [][NextLogging]_vars

\* The fingerprint helper applied to every payload and key order.
Fingerprint ==
    /\ \E payload \in Payloads, keys \in KeyOrders :
        hashed' = Some([ payload |-> payload, keys |-> keys,
                         digest |-> features_hash(payload, keys) ])
    /\ UNCHANGED << servevars, logDir, loggers, initCalls, emitted, resolved >>

NextFingerprint == Fingerprint

InitFingerprint == Unserved /\ Imported

SpecFingerprint == InitFingerprint /\ [][NextFingerprint]_vars

\* The address helper applied to every combination of its three sources.
ResolveClientIp ==
    /\ \E q \in AddressRequests :
        resolved' = Some([ request |-> q, ip |-> client_ip_from_request(q) ])
    /\ UNCHANGED << servevars, logDir, loggers, initCalls, emitted, hashed >>

NextClientIp == ResolveClientIp

InitClientIp == Unserved /\ Imported

SpecClientIp == InitClientIp /\ [][NextClientIp]_vars

\* ------------------------------------------------------------ observations
Handled(r) == phase[r] \in { "returned", "done" }

\* r's handler is about to run in this step / has just run in this step
Handling(r) == phase[r] = "awaiting" /\ phase'[r] = "returned"

Path(r) == request[r][1].path

\* predict_housing_price was entered for r (and so load_model() was called)
CalledLoad(r) == Handled(r) /\ Path(r) = "/predict" /\ handler[r].ran

\* r's call of load_model() ran the load path (the body), cached nothing found
RanLoadPath(r) == CalledLoad(r) /\ ~handler[r].loaded.hit

\* what r's call of load_model() gave its caller: the handle or the failure
Observed(r) ==
    [ ok |-> handler[r].loaded.ok, model |-> handler[r].loaded.model,
      error |-> handler[r].loaded.error ]

EventsOf(r, name) == SelectSeq(log[r], LAMBDA e : e.extra.event = name)

\* the file the metadata descriptor selects: the one it names when it is
\* present, readable and names one, the default otherwise
SelectedFile(dir) == IF dir.meta = "named" THEN NamedFilename ELSE DefaultFilename

\* ------------------------------------------------------------------ claims
\* C1 (as claimed): when two or more requests call load_model() concurrently
\* while no model is loaded, the load path runs at most once in total and all
\* of them observe the same handle or the same failure.
C1_SingleFlightLoad ==
    LET callers == { r \in cohort : CalledLoad(r) }
    IN  Cardinality(callers) >= 2 =>
            /\ Cardinality({ r \in callers : RanLoadPath(r) }) <= 1
            /\ \A a, b \in callers : Observed(a) = Observed(b)

\* C2: once a call of load_model() has returned a handle, every later call
\* returns the identical handle and touches storage no more (no existence
\* check, no metadata read, no joblib.load), whatever the directory now holds.
C2_HandleReusedWithoutStorage ==
    [][ \A r, q \in Req :
            ( Handling(r) /\ Path(r) = "/predict" /\ handler'[r].ran
              /\ CalledLoad(q) /\ handler[q].loaded.ok )
            => /\ handler'[r].loaded.ok
               /\ handler'[r].loaded.model = handler[q].loaded.model
               /\ handler'[r].loaded.ops = <<>>
               /\ slot' = slot /\ nextObj' = nextObj ]_vars

C2_Witness ==
    \E q, r \in Req :
        /\ q # r /\ CalledLoad(q) /\ CalledLoad(r)
        /\ ~handler[q].loaded.hit /\ handler[q].loaded.ok
        /\ handler[r].loaded.hit /\ handler[r].loaded.ops = <<>>
        /\ handler[r].loaded.model = handler[q].loaded.model
        /\ FileState(fs, handler[q].loaded.model[1].path) # "ok"

\* C3: a failed load_model() is not memoized.  The failure reaches the caller
\* (the handler reports it), and as long as no call has succeeded the next
\* call runs the load path again; it succeeds and caches the handle when the
\* artifact is loadable by then.
C3_FailureNotMemoized ==
    [][ \A r \in Req :
            ( Handling(r) /\ Path(r) = "/predict" /\ handler'[r].ran
              /\ (\A q \in Req : CalledLoad(q) => ~handler[q].loaded.ok) )
            => /\ ~handler'[r].loaded.hit
               /\ handler'[r].loaded.ops # <<>>
               /\ ( FileState(fs, SelectedFile(fs)) = "ok" /\ fs.meta # "corrupt"
                    => /\ handler'[r].loaded.ok
                       /\ slot' # <<>>
                       /\ slot'[1].model = handler'[r].loaded.model )
               /\ ( ~handler'[r].loaded.ok
                    => /\ slot' = <<>>
                       /\ handler'[r].loaded.error # <<>>
                       /\ handler'[r].result.kind = "HTTPException"
                       /\ handler'[r].result.body.detail
                            = << "Prediction failed: " >> \o handler'[r].loaded.error ) ]_vars

C3_Witness ==
    \E q, r \in Req :
        /\ CalledLoad(q) /\ ~handler[q].loaded.ok /\ handler[q].loaded.ops # <<>>
        /\ CalledLoad(r) /\ handler[r].loaded.ok /\ ~handler[r].loaded.hit
        /\ slot # <<>> /\ slot[1].model = handler[r].loaded.model

\* C4 (as claimed): the load uses the file the metadata names when the
\* metadata is present and readable and the default file in every other case;
\* an unreadable metadata file alone never makes the load fail.
C4_MetadataFallback ==
    [][ \A r \in Req :
            ( Handling(r) /\ Path(r) = "/predict" /\ handler'[r].ran
              /\ ~handler'[r].loaded.hit
              /\ FileState(fs, SelectedFile(fs)) = "ok" )
            => /\ handler'[r].loaded.ok
               /\ handler'[r].loaded.model[1].path = SelectedFile(fs) ]_vars

\* ---------------------------------------------------- observations, service
EventsIn(records, name) == SelectSeq(records, LAMBDA e : e.extra.event = name)

\* the value of a column of the row given to model.predict
Column(row, name) == row[CHOOSE i \in DOMAIN row : row[i][1] = name][2]

\* predict_housing_price ran for r and returned a prediction / did not
Succeeded(r) == CalledLoad(r) /\ handler[r].result.kind = "return"
Failed(r) == CalledLoad(r) /\ handler[r].result.kind # "return"

\* C5: every request that reaches the handler increments 'requests received'
\* once, and 'successful predictions' once if and only if it succeeds; after K
\* successes and M failures /metrics reports requests >= K+M and successes = K.
C5_CountersMatchOutcomes ==
    LET K == Cardinality({ r \in Req : Succeeded(r) })
        M == Cardinality({ r \in Req : Failed(r) })
        reported == metrics(REQUEST_COUNT, SUCCESS_COUNT).body
    IN  /\ REQUEST_COUNT = K + M
        /\ SUCCESS_COUNT = K
        /\ reported.prediction_requests_total >= K + M
        /\ reported.successful_predictions_total = K
        /\ \A r \in Req : Succeeded(r) <=>
               ( Handled(r) /\ Path(r) = "/predict" /\ called[r].kind = "response"
                 /\ called[r].response[1].status_code = 200 )

C5_Witness ==
    /\ \E r \in Req : Succeeded(r)
    /\ \E r \in Req : Failed(r)
    /\ \A r \in Req : phase[r] = "done"

C7_ZeroPopulationUsesDivisorOne ==
    \A r \in Req :
        ( CalledLoad(r) /\ handler[r].row # None /\ request[r][1].body.Population = 0 )
        => LET rpp == Column(handler[r].row[1], "rooms_per_person")
               body == request[r][1].body
           IN  /\ IsFinite(rpp)
               /\ FloatEq(rpp, FloatDiv(body.AveRooms * body.AveOccup, 1))
               /\ handler[r].predict = "value" => handler[r].result.status_code = 200

\* C8 (as claimed): for a record with non-zero Population the rooms_per_person
\* handed to the model equals AveRooms * AveOccup / Population, the value the
\* training side (engineer_features) derives from the same record.
C8_ServingMatchesTraining ==
    \A r \in Req :
        ( CalledLoad(r) /\ handler[r].row # None /\ request[r][1].body.Population # 0 )
        => LET rpp == Column(handler[r].row[1], "rooms_per_person")
               body == request[r][1].body
           IN  /\ FloatEq(rpp, FloatDiv(body.AveRooms * body.AveOccup, body.Population))
               /\ FloatEq(rpp, EngineerRoomsPerPerson(body))

\* C9: for a request whose path is not excluded, dispatch logs exactly one
\* 'request completed' event on every exit path: with the response's status
\* code when the handler returned a response, with 500 when it raised; none
\* before dispatch ends, never two.
C9_OneCompletionEvent ==
    \A r \in Req :
        ( request[r] # None /\ Path(r) \notin EXCLUDE_PATHS )
        => LET completed == EventsOf(r, "request_completed")
           IN  IF phase[r] = "done"
               THEN /\ Len(completed) = 1
                    /\ completed[1].extra.status_code
                         = IF called[r].kind = "response"
                           THEN called[r].response[1].status_code ELSE 500
                    /\ returned[r].kind = IF called[r].kind = "response"
                                          THEN "return" ELSE "raise"
               ELSE completed = <<>>

C9_Witness ==
    /\ \E r \in Req :
        /\ phase[r] = "done" /\ called[r].kind = "raise"
        /\ Len(EventsOf(r, "request_completed")) = 1
        /\ EventsOf(r, "request_completed")[1].extra.status_code = 500
    /\ \E r \in Req :
        /\ phase[r] = "done" /\ called[r].kind = "response"
        /\ Len(EventsOf(r, "request_completed")) = 1
        /\ EventsOf(r, "request_completed")[1].extra.status_code = 200

\* C10 (as claimed): every /predict request produces a 'request completed'
\* event whose request_id equals the X-Request-ID header of that request's
\* response; requests to /health and /metrics never produce that event.
C10_CompletionIdMatchesHeader ==
    \A r \in Req :
        phase[r] = "done"
        => LET completed == EventsOf(r, "request_completed")
           IN  /\ Path(r) = "/predict"
                    => \E i \in DOMAIN completed :
                          /\ returned[r].response # None
                          /\ returned[r].response[1].headers.x_request_id
                               = Some(completed[i].extra.request_id)
               /\ Path(r) \in { "/health", "/metrics" } => completed = <<>>

\* C11: every response produced for a request carries the header X-Request-ID
\* set to that request's correlation id, whatever the outcome (200, 422, 500,
\* and the responses of the excluded paths /health and /metrics).
C11_ResponseCarriesRequestId ==
    \A r \in Req :
        phase[r] = "done"
        => /\ called[r].kind = "response"
                => returned[r].kind = "return" /\ returned[r].response # None
           /\ returned[r].response # None
                => /\ returned[r].response[1].headers.x_request_id = request_id[r]
                   /\ returned[r].response[1].status_code
                        = called[r].response[1].status_code

\* a 422 and a /health response, both stamped
C11_Witness ==
    \E r, q \in Req :
        /\ phase[r] = "done" /\ phase[q] = "done"
        /\ Path(r) = "/predict" /\ returned[r].response # None
        /\ returned[r].response[1].status_code = 422
        /\ returned[r].response[1].headers.x_request_id = request_id[r]
        /\ Path(q) = "/health" /\ returned[q].response # None
        /\ returned[q].response[1].headers.x_request_id = request_id[q]

\* what a request was logged and answered with is its correlation id
IdCarried(r) ==
    /\ \A i \in DOMAIN log[r] :
          "request_id" \in DOMAIN log[r][i].extra
              => log[r][i].extra.request_id = request_id[r][1]
    /\ returned[r].response # None
          => returned[r].response[1].headers.x_request_id = request_id[r]

\* C12 (as claimed): if the request carries an x-request-id header, its
\* correlation id (logged and stamped on the response) is exactly that header
\* value; otherwise a new id is generated that differs from the id of every
\* other request.
C12_HeaderValueIsId ==
    \A r \in Req :
        request[r] # None
        => /\ request[r][1].xrid # None => request_id[r] = request[r][1].xrid
           /\ request[r][1].xrid = None
                => \A q \in Req \ { r } : request_id[q] # request_id[r]
           /\ IdCarried(r)

\* C12 (amended): if the request carries a non-empty x-request-id header, its
\* correlation id (logged and stamped on the response) is exactly that header
\* value; if the header is absent or empty a new id is generated, and the
\* generated ids of different requests differ.
C12_NonEmptyHeaderValueIsId ==
    \A r \in Req :
        request[r] # None
        => /\ Truthy(request[r][1].xrid) => request_id[r] = request[r][1].xrid
           /\ ~Truthy(request[r][1].xrid)
                => /\ request_id[r] = Some(Uuid4(r))
                   /\ \A q \in Req \ { r } :
                        ( request[q] # None /\ ~Truthy(request[q][1].xrid) )
                            => request_id[q] # request_id[r]
           /\ IdCarried(r)

\* one request with the header "ab", one with an empty header, both answered
C12_Witness ==
    \E r, q \in Req :
        /\ phase[r] = "done" /\ phase[q] = "done"
        /\ request[r][1].xrid = Some(<< "a", "b" >>)
        /\ request_id[r] = Some(<< "a", "b" >>)
        /\ EventsOf(r, "request_completed") # <<>>
        /\ request[q][1].xrid = Some(<<>>)
        /\ request_id[q] = Some(Uuid4(q))
        /\ returned[q].response[1].headers.x_request_id = Some(Uuid4(q))

\* the bodies validation rejects: a required field missing, a field of the
\* wrong type, an empty object
RejectedRequests ==
    { t @@ NoHeaders : t \in { Predict(MissingFieldBody), WrongTypeBody, Predict(<<>>) } }

\* C13: a /predict request rejected by validation returns 422 and leaves the
\* serving core untouched: no counter incremented, no fingerprint computed, no
\* prediction event logged, no model load attempted.
C13_RejectionLeavesCoreUntouched ==
    [][ \A r \in Req :
            ( Handling(r) /\ request[r][1] \in RejectedRequests )
            => /\ called'[r].kind = "response"
               /\ called'[r].response[1].status_code = 422
               /\ REQUEST_COUNT' = REQUEST_COUNT
               /\ SUCCESS_COUNT' = SUCCESS_COUNT
               /\ slot' = slot /\ nextObj' = nextObj
               /\ log'[r] = log[r]
               /\ ~handler'[r].ran
               /\ handler'[r].steps = <<>>
               /\ handler'[r].loaded.ops = <<>> ]_vars

\* a wrong-typed and an empty body, both answered 422, nothing counted or loaded
C13_Witness ==
    \E r, q \in Req :
        /\ phase[r] = "done" /\ phase[q] = "done"
        /\ request[r][1] = WrongTypeBody @@ NoHeaders
        /\ request[q][1] = Predict(<<>>) @@ NoHeaders
        /\ returned[r].response[1].status_code = 422
        /\ returned[q].response[1].status_code = 422
        /\ REQUEST_COUNT = 0 /\ SUCCESS_COUNT = 0 /\ slot = <<>>
        /\ EventsOf(r, "prediction_request_received") = <<>>

\* C14: when the model is obtainable and its predict call succeeds, the handler
\* increments the success counter, logs one 'prediction completed' event with
\* status 200, latency, fingerprint and the predicted value, and answers 200
\* with that same predicted_value in the body.
C14_SuccessReported ==
    [][ \A r \in Req :
            ( Handling(r) /\ Path(r) = "/predict" /\ handler'[r].ran
              /\ handler'[r].loaded.ok /\ handler'[r].predict = "value" )
            => LET completed == EventsIn(log'[r], "prediction_completed")
                   answer == called'[r].response[1]
               IN  /\ SUCCESS_COUNT' = SUCCESS_COUNT + 1
                   /\ Len(completed) = 1
                   /\ completed[1].extra.status_code = 200
                   /\ completed[1].extra.latency_ms \in Nat
                   /\ completed[1].extra.features_hash
                        = features_hash(FeaturesDict(HousingFeatures(request[r][1].body,
                                                                     request[r][1].text)),
                                        ordered_keys)
                   /\ completed[1].extra.predicted_value \in PredictedValues
                   /\ EventsIn(log'[r], "prediction_failed") = <<>>
                   /\ called'[r].kind = "response"
                   /\ answer.status_code = 200
                   /\ answer.body.predicted_value = completed[1].extra.predicted_value ]_vars

C14_Witness ==
    \E r \in Req :
        /\ Succeeded(r) /\ phase[r] = "done"
        /\ SUCCESS_COUNT = 1
        /\ Len(EventsOf(r, "prediction_completed")) = 1
        /\ returned[r].response[1].status_code = 200
        /\ returned[r].response[1].body.predicted_value
             = EventsOf(r, "prediction_completed")[1].extra.predicted_value

\* C15: GET /health answers 200 with {"status": "ok"} in every state of the
\* process (model not loaded, loaded, failing to load), never logs a 'request
\* completed' event, and changes neither counter nor the model cache.
C15_HealthAlwaysOk ==
    [][ \A r \in Req :
            /\ ( Handling(r) /\ Path(r) = "/health" )
                => /\ called'[r].kind = "response"
                   /\ called'[r].response[1].status_code = 200
                   /\ called'[r].response[1].body = [ status |-> "ok" ]
                   /\ log'[r] = <<>>
                   /\ UNCHANGED << REQUEST_COUNT, SUCCESS_COUNT, slot, nextObj >>
            /\ ( phase[r] = "returned" /\ phase'[r] = "done" /\ Path(r) = "/health" )
                => /\ returned'[r].kind = "return"
                   /\ returned'[r].response[1].status_code = 200
                   /\ returned'[r].response[1].body = [ status |-> "ok" ]
                   /\ log'[r] = <<>>
                   /\ UNCHANGED << REQUEST_COUNT, SUCCESS_COUNT, slot, nextObj >> ]_vars

\* /health answered while the model cannot be loaded, and while it is loaded
C15_Witness ==
    \E r, q \in Req :
        /\ phase[r] = "done" /\ Path(r) = "/health"
        /\ returned[r].response[1].status_code = 200
        /\ log[r] = <<>>
        /\ CalledLoad(q) /\ ~handler[q].loaded.ok /\ slot = <<>>

\* ------------------------------------------------- observations, logging
\* the keys of the JSON objects the last logger call wrote
WrittenKeys == { DictKeys(emitted[1].outs[i].line[1]) :
                   i \in { j \in DOMAIN emitted[1].outs : emitted[1].outs[j].line # None } }

AllowedKeySet == { AllowedKeys[i] : i \in DOMAIN AllowedKeys }

\* C16 (as claimed): a serialized record contains, besides the fixed keys, only
\* allow-listed keys, an allow-listed key appears only if the record has that
\* attribute, and no other extra attribute is ever emitted.
C16_OnlyPresentAllowedKeys ==
    emitted # None
    => \A keys \in WrittenKeys :
          /\ FixedKeys \subseteq keys
          /\ keys \subseteq FixedKeys \cup AllowedKeySet
          /\ \A k \in keys \cap AllowedKeySet : k \in DOMAIN emitted[1].record.extra
          /\ \A k \in DOMAIN emitted[1].record.extra : k \notin AllowedKeySet => k \notin keys

\* C16 (amended): a serialized record contains, besides the fixed keys, only
\* allow-listed keys; an allow-listed key appears only if the record has that
\* attribute, except 'error', which also appears when the record carries
\* exception information; no other extra attribute is ever emitted.
C16_OnlyAllowedKeysErrorFromException ==
    emitted # None
    => \A keys \in WrittenKeys :
          /\ FixedKeys \subseteq keys
          /\ keys \subseteq FixedKeys \cup AllowedKeySet
          /\ \A k \in keys \cap AllowedKeySet :
                \/ k \in DOMAIN emitted[1].record.extra
                \/ k = "error" /\ emitted[1].record.exc_info
          /\ \A k \in DOMAIN emitted[1].record.extra : k \notin AllowedKeySet => k \notin keys

\* a record with exc_info, a request_id and raw features but no 'error'
\* attribute, written by both sinks
C16_Witness ==
    /\ emitted # None
    /\ emitted[1].record.exc_info
    /\ DOMAIN emitted[1].record.extra = { "request_id", "features" }
    /\ \A i \in DOMAIN emitted[1].outs : emitted[1].outs[i].line # None
    /\ WrittenKeys = { FixedKeys \cup { "request_id", "error" } }

\* C17 (as claimed): after any number of init_logging calls the 'app' logger
\* has exactly the two sinks the first call attached (a rotating file sink and
\* a stdout sink), and a call after the first changes no logger's handlers,
\* level or propagate flag.
C17_InitLoggingIdempotent ==
    [][ Len(initCalls') = Len(initCalls) + 1
        => /\ loggers'["app"].handlers
                = << [ kind |-> "RotatingFileHandler", call |-> 1 ],
                     [ kind |-> "StreamHandler", call |-> 1 ] >>
           /\ Len(initCalls) >= 1 => loggers' = loggers ]_vars

\* C19 (as claimed): a failure of the logging sinks never surfaces: when the
\* log directory cannot be created or a line cannot be written, init_logging
\* and the logging calls return normally.
C19_SinkFailuresSwallowed ==
    /\ \A i \in DOMAIN initCalls : initCalls[i] = "returned"
    /\ emitted # None => ~emitted[1].raised

\* ---------------------------------------------- observations, fingerprint
Items(d) == { d[i] : i \in DOMAIN d }

\* q holds the same items as p, inserted in some order
PermutationOf(q, p) == Len(q) = Len(p) /\ Items(q) = Items(p)

\* q and p agree on the values of the given keys
AgreeOn(q, p, keys) == \A i \in DOMAIN keys : DictGet(q, keys[i]) = DictGet(p, keys[i])

\* C18: for a fixed explicit key order, features_hash gives the same
\* fingerprint for every permutation of the mapping's insertion order, and two
\* inputs that agree on the values of the ordered keys get the same fingerprint.
C18_FingerprintIgnoresInsertionOrder ==
    ( hashed # None /\ hashed[1].keys # <<>> )
    => \A q \in Payloads :
          ( PermutationOf(q, hashed[1].payload) \/ AgreeOn(q, hashed[1].payload, hashed[1].keys) )
              => features_hash(q, hashed[1].keys) = hashed[1].digest

\* a payload of three items hashed under an explicit order: another insertion
\* order of it exists, and a payload with another Population hashes differently
C18_Witness ==
    /\ hashed # None /\ hashed[1].keys = << "Population", "AveRooms" >>
    /\ Len(hashed[1].payload) = 3
    /\ hashed[1].payload[1][1] = "rooms_per_person"
    /\ \E q \in Payloads : q # hashed[1].payload /\ PermutationOf(q, hashed[1].payload)
    /\ \E q \in Payloads :
          /\ DictGet(q, "Population") # DictGet(hashed[1].payload, "Population")
          /\ features_hash(q, hashed[1].keys) # hashed[1].digest

\* ------------------------------------------------- observations, ordering
\* the place of a step in the order the claim gives (0: not named by it)
StepRank(step) ==
    CASE step = "REQUEST_COUNT.inc" -> 1
      [] step = "prediction_request_received" -> 2
      [] step = "load_model" -> 3
      [] step = "model.predict" -> 4
      [] step \in { "prediction_completed", "prediction_failed" } -> 5
      [] step = "request_completed" -> 6
      [] OTHER -> 0

Ranked(steps) == SelectSeq(steps, LAMBDA x : StepRank(x) > 0)

LoggedSteps(steps) ==
    SelectSeq(steps, LAMBDA x : x \in { "prediction_request_received", "prediction_completed",
                                         "prediction_failed", "request_completed" })

\* the events of the claim that r's records show, in the order they were logged
LoggedEvents(r) == LoggedSteps([ i \in DOMAIN log[r] |-> log[r][i].extra.event ])

C21_OneTerminalEvent ==
    \A r \in Req :
        ( CalledLoad(r) /\ EventsOf(r, "prediction_request_received") # <<>> )
        => Len(EventsOf(r, "prediction_completed"))
             + Len(EventsOf(r, "prediction_failed")) = 1

\* C22 (as claimed): the client address is the trimmed first comma-separated
\* token of x-forwarded-for if that header is present, else the (trimmed)
\* x-real-ip value if that header is present, else the peer host, else the
\* empty string; a lower-priority source is never used while a
\* higher-priority header is present.
C22_PriorityByPresence ==
    resolved # None
    => LET q == resolved[1].request
       IN  resolved[1].ip
             = IF q.xff # None THEN Strip(FirstToken(q.xff[1]))
               ELSE IF q.xrip # None THEN Strip(q.xrip[1])
               ELSE IF q.client # None THEN q.client[1]
               ELSE <<>>

\* C22 (amended): the same priority, a header counting as present only when
\* its value is not the empty string: an absent or empty x-forwarded-for falls
\* through to x-real-ip, an absent or empty x-real-ip to the peer host.
C22_PriorityByNonEmptyHeader ==
    resolved # None
    => LET q == resolved[1].request
       IN  resolved[1].ip
             = IF Truthy(q.xff) THEN Strip(FirstToken(q.xff[1]))
               ELSE IF Truthy(q.xrip) THEN Strip(q.xrip[1])
               ELSE IF q.client # None THEN q.client[1]
               ELSE <<>>

\* a forwarded-for list wins over both other sources, first token trimmed
C22_Witness ==
    /\ resolved # None
    /\ resolved[1].request.xff = Some(<< "x", ",", " ", "y" >>)
    /\ resolved[1].request.xrip = Some(<< "r" >>)
    /\ resolved[1].request.client = Some(<< "p" >>)
    /\ resolved[1].ip = << "x" >>

\* C28 (as claimed): the resolved address is non-empty whenever one of the
\* three sources holds a non-blank address; a blank, whitespace-only or
\* leading-comma x-forwarded-for value does not mask a usable x-real-ip header
\* or peer address.
C28_BlankSourceDoesNotMask ==
    resolved # None
    => LET q == resolved[1].request
       IN  ( \/ q.xff # None /\ Strip(FirstToken(q.xff[1])) # <<>>
             \/ q.xrip # None /\ Strip(q.xrip[1]) # <<>>
             \/ q.client # None /\ Strip(q.client[1]) # <<>> )
           => resolved[1].ip # <<>>

\* the 'error' member of every line the last logger call wrote
WrittenErrors ==
    { DictGet(emitted[1].outs[i].line[1], "error") :
        i \in { j \in DOMAIN emitted[1].outs : emitted[1].outs[j].line # None } }

\* C23 (as claimed): when a record carries both an explicit 'error' attribute
\* and exception info, the emitted 'error' field is the explicit text, for
\* every value of that text; the formatted traceback appears under 'error'
\* only when the record has exception info and no explicit error attribute.
C23_ExplicitErrorWins ==
    emitted # None
    => LET record == emitted[1].record
       IN  \A error \in WrittenErrors :
              /\ ( record.exc_info /\ "error" \in DOMAIN record.extra )
                    => error = Some(record.extra.error)
              /\ error = Some(FormatException)
                    => record.exc_info /\ "error" \notin DOMAIN record.extra

\* C23 (amended): when a record carries both a non-empty explicit 'error'
\* attribute and exception info, the emitted 'error' field is the explicit
\* text; the formatted traceback appears under 'error' exactly when the record
\* has exception info and its explicit error attribute is missing or empty.
C23_NonEmptyExplicitErrorWins ==
    emitted # None
    => LET record == emitted[1].record
           explicit == "error" \in DOMAIN record.extra /\ record.extra.error # <<>>
       IN  \A error \in WrittenErrors :
              /\ ( record.exc_info /\ explicit ) => error = Some(record.extra.error)
              /\ error = Some(FormatException) <=> ( record.exc_info /\ ~explicit )

\* logger.error(..., extra={"error": "boom"}, exc_info=True) written by a sink
C23_Witness ==
    /\ emitted # None
    /\ emitted[1].record.exc_info
    /\ "error" \in DOMAIN emitted[1].record.extra
    /\ emitted[1].record.extra.error = << "boom" >>
    /\ WrittenErrors = { Some(<< "boom" >>) }

\* C26 (as claimed): an exception raised below dispatch is never swallowed:
\* it propagates out of dispatch on every path, for /health and /metrics
\* exactly as for the other paths, and dispatch never returns a missing
\* (None) response.
C26_DownstreamErrorPropagates ==
    \A r \in Req :
        phase[r] = "done"
        => /\ called[r].kind = "raise" => returned[r].kind = "raise"
           /\ returned[r].kind = "return" => returned[r].response # None

\* C24: under any interleaving of concurrent in-flight requests no counter
\* update is lost: once all requests have finished, 'requests received'
\* equals the number of predict invocations and 'successful predictions' the
\* number of successful ones.
C24_NoLostUpdate ==
    ( \A r \in Req : phase[r] \in { "idle", "done" } )
    => /\ REQUEST_COUNT = Cardinality({ r \in Req : CalledLoad(r) })
       /\ SUCCESS_COUNT = Cardinality({ r \in Req : Succeeded(r) })

\* two invocations in flight together before either handler ran, one
\* succeeding and one failing, both finished
C24_Witness ==
    /\ cohort = Req
    /\ \A r \in Req : phase[r] = "done" /\ CalledLoad(r)
    /\ \E r \in Req : Succeeded(r)
    /\ \E r \in Req : Failed(r)
    /\ REQUEST_COUNT = Cardinality(Req)

\* r is a /predict request answered with status 200
Answered200(r) ==
    /\ Handled(r) /\ Path(r) = "/predict"
    /\ called[r].kind = "response" /\ called[r].response[1].status_code = 200

\* C27: in every reachable state 'successful predictions' equals the number
\* of /predict requests that ended with a 200 response; no request both
\* increments the success counter and then takes the 'prediction failed' /
\* 500 path.
C27_SuccessCountIs200Count ==
    /\ SUCCESS_COUNT = Cardinality({ r \in Req : Answered200(r) })
    /\ \A r \in Req :
          ( CalledLoad(r)
            /\ \E i \in DOMAIN handler[r].steps : handler[r].steps[i] = "SUCCESS_COUNT.inc" )
          => /\ Answered200(r)
             /\ EventsOf(r, "prediction_failed") = <<>>
             /\ \A i \in DOMAIN handler[r].steps : handler[r].steps[i] # "prediction_failed"

\* one request answered 200 after its increment, one answered 500 without one
C27_Witness ==
    \E r, q \in Req :
        /\ Answered200(r)
        /\ \E i \in DOMAIN handler[r].steps : handler[r].steps[i] = "SUCCESS_COUNT.inc"
        /\ CalledLoad(q) /\ called[q].kind = "response"
        /\ called[q].response[1].status_code = 500
        /\ Len(EventsOf(q, "prediction_failed")) = 1
        /\ SUCCESS_COUNT = 1

\* C30: in every reachable state, under any sequence and interleaving of
\* /predict, /health and /metrics requests, both counters are non-negative,
\* neither decreases from a state to the next, and 'successful predictions'
\* <= 'requests received'.
C30_CountersMonotoneAndOrdered ==
    [][ /\ REQUEST_COUNT >= 0 /\ SUCCESS_COUNT >= 0
        /\ SUCCESS_COUNT <= REQUEST_COUNT
        /\ REQUEST_COUNT' >= REQUEST_COUNT
        /\ SUCCESS_COUNT' >= SUCCESS_COUNT
        /\ SUCCESS_COUNT' >= 0
        /\ SUCCESS_COUNT' <= REQUEST_COUNT' ]_vars

\* a failed invocation, then /metrics scraped: the counters apart and reported
C30_Witness ==
    \E r, q \in Req :
        /\ r < q
        /\ Failed(r) /\ phase[r] = "done"
        /\ Handled(q) /\ Path(q) = "/metrics" /\ handler[q].ran
        /\ handler[q].result.body.prediction_requests_total = 1
        /\ handler[q].result.body.successful_predictions_total = 0
        /\ REQUEST_COUNT = 1 /\ SUCCESS_COUNT = 0

\* position of the first record of r's log with the given event name (0: none)
FirstIndexOf(r, name) ==
    IF \E i \in DOMAIN log[r] : log[r][i].extra.event = name
    THEN CHOOSE i \in DOMAIN log[r] :
            /\ log[r][i].extra.event = name
            /\ \A j \in 1..(i - 1) : log[r][j].extra.event # name
    ELSE 0

\* C29: over any sequence of load_model() calls in one process (failed
\* attempts followed by retries, first calls made while others are in flight)
\* the 'model loaded' event is emitted at most once, and each failed attempt
\* emits exactly one 'model load failed' event, carrying the error, before
\* the error reaches the caller.
C29_LoadEventsOnce ==
    /\ Cardinality({ r \in Req : EventsOf(r, "model_loaded") # <<>> }) <= 1
    /\ \A r \in Req :
          /\ Len(EventsOf(r, "model_loaded")) <= 1
          /\ CalledLoad(r)
                => IF handler[r].loaded.ok
                   THEN /\ EventsOf(r, "model_load_failed") = <<>>
                        /\ EventsOf(r, "model_loaded") # <<>> <=> ~handler[r].loaded.hit
                   ELSE /\ EventsOf(r, "model_loaded") = <<>>
                        /\ Len(EventsOf(r, "model_load_failed")) = 1
                        /\ EventsOf(r, "model_load_failed")[1].extra.error
                             = handler[r].loaded.error
                        /\ FirstIndexOf(r, "prediction_failed") > 0
                        /\ FirstIndexOf(r, "model_load_failed")
                             < FirstIndexOf(r, "prediction_failed")

\* two calls in flight together: the first fails and logs its failure once,
\* the retry loads the model and logs 'model loaded' once
C29_Witness ==
    \E q, r \in Req :
        /\ cohort = { q, r } /\ q # r
        /\ CalledLoad(q) /\ ~handler[q].loaded.ok
        /\ Len(EventsOf(q, "model_load_failed")) = 1
        /\ CalledLoad(r) /\ handler[r].loaded.ok
        /\ Len(EventsOf(r, "model_loaded")) = 1
        /\ EventsOf(r, "model_load_failed") = <<>>

\* every record logged for r that names a request names r, and the response
\* to r is stamped with r's id
OwnContext(r) ==
    /\ \A i \in DOMAIN log[r] :
          "request_id" \in DOMAIN log[r][i].extra
              => /\ log[r][i].extra.request_id = request_id[r][1]
                 /\ log[r][i].extra.client_ip = client_ip_from_request(request[r][1])
                 /\ log[r][i].extra.route = request[r][1].path
                 /\ log[r][i].extra.method = request[r][1].method
    /\ ( phase[r] = "done" /\ returned[r].response # None )
          => returned[r].response[1].headers.x_request_id = request_id[r]

\* C25: under any interleaving of concurrent requests every event emitted
\* while handling a request (prediction request received, prediction
\* completed / failed, request completed) and the response header carry that
\* request's own correlation id, client address, route and method; none
\* carries the context of a different request in flight.
C25_OwnContextOnly ==
    \A r \in Req :
        request[r] # None
        => /\ OwnContext(r)
           /\ \A q \in Req \ { r } :
                ( request[q] # None /\ request_id[q] # request_id[r] )
                => /\ \A i \in DOMAIN log[r] :
                         "request_id" \in DOMAIN log[r][i].extra
                             => log[r][i].extra.request_id # request_id[q][1]
                   /\ returned[r].response # None
                         => returned[r].response[1].headers.x_request_id # request_id[q]

\* two requests from different clients in flight together, both handlers
\* done and neither dispatch finished; then both answered
C25_Witness ==
    \E r, q \in Req :
        /\ phase[r] = "returned" /\ phase[q] = "returned"
        /\ CalledLoad(r) /\ CalledLoad(q)
        /\ request_id[r] = Some(<< "a", "b" >>) /\ request_id[q] # request_id[r]
        /\ client_ip_from_request(request[r][1]) = << "x" >>
        /\ client_ip_from_request(request[q][1]) = << "p" >>
        /\ EventsOf(r, "prediction_completed") # <<>>
        /\ EventsOf(r, "prediction_completed")[1].extra.client_ip = << "x" >>
        /\ EventsOf(q, "prediction_request_received") # <<>>
        /\ EventsOf(q, "prediction_request_received")[1].extra.request_id = request_id[q][1]

====
